---- MODULE Spec2Model ----
(***************************************************************************)
(* Flyweight elements, element containers and the 3x3 maze Block of        *)
(* src/maze/block.cpp (and the Element/ElementContainer classes it shares  *)
(* with src/flyweight/flyweight.cpp).                                      *)
(*                                                                         *)
(* Strings are TLA+ strings; the glyphs are "" (null), " " (blank) and     *)
(* "■" (filled).  Containers live on a heap of addresses: `new` takes a    *)
(* non-live address, `delete` releases one, and a released address read    *)
(* through a dangling pointer yields any value (or stops the program).     *)
(***************************************************************************)
EXTENDS Integers, Sequences, FiniteSets, TLC

VARIABLES representations, heap, state, el_proxy, grid, locals, call, crashed, nCalls

vars == <<representations, heap, state, el_proxy, grid, locals, call, crashed>>

(* ---------------------------------------------------------------- bounds *)

\* calls a caller of Block makes after constructing it (Spec)
MaxCalls == 2

\* containers a caller of ElementContainer holds at once (SpecFlyweight)
MaxHeld == 1

\* the sides a caller of Block passes to setSide (Spec)
SetSideArgs == {"NORTH", "CENTER"}

\* the keys a caller passes to Element::repr directly (SpecFlyweight); through
\* a container every side is looked up
ReprArgs == {"NORTH", "CENTER", "SOUTH"}

(* --------------------------------------------------------------- helpers *)

BLOCK_SIZE == 3

Side == {"NORTH_WEST", "NORTH", "NORTH_EAST", "WEST", "CENTER", "EAST",
         "SOUTH_WEST", "SOUTH", "SOUTH_EAST"}

Index == (0 .. BLOCK_SIZE - 1) \X (0 .. BLOCK_SIZE - 1)

side_map_transposed ==
    [s \in Side |->
        CASE s = "NORTH"      -> <<1, 0>>
          [] s = "NORTH_EAST" -> <<2, 0>>
          [] s = "EAST"       -> <<2, 1>>
          [] s = "CENTER"     -> <<1, 1>>
          [] s = "SOUTH_EAST" -> <<2, 2>>
          [] s = "SOUTH"      -> <<1, 2>>
          [] s = "SOUTH_WEST" -> <<0, 2>>
          [] s = "WEST"       -> <<0, 1>>
          [] s = "NORTH_WEST" -> <<0, 0>>]

side_map ==
    [s \in Side |->
        CASE s = "NORTH"      -> <<0, 1>>
          [] s = "NORTH_EAST" -> <<0, 2>>
          [] s = "EAST"       -> <<1, 2>>
          [] s = "CENTER"     -> <<1, 1>>
          [] s = "SOUTH_EAST" -> <<2, 2>>
          [] s = "SOUTH"      -> <<2, 1>>
          [] s = "SOUTH_WEST" -> <<2, 0>>
          [] s = "WEST"       -> <<1, 0>>
          [] s = "NORTH_WEST" -> <<0, 0>>]

reverse_side_map ==
    [p \in Index |->
        CASE p = <<0, 1>> -> "NORTH"
          [] p = <<0, 2>> -> "NORTH_EAST"
          [] p = <<1, 1>> -> "CENTER"
          [] p = <<1, 2>> -> "EAST"
          [] p = <<2, 2>> -> "SOUTH_EAST"
          [] p = <<2, 1>> -> "SOUTH"
          [] p = <<2, 0>> -> "SOUTH_WEST"
          [] p = <<1, 0>> -> "WEST"
          [] p = <<0, 0>> -> "NORTH_WEST"]

index_to_side(x, y) == reverse_side_map[<<x, y>>]

side_to_index(s) == side_map[s]

(* ------------------------------------------------------------- elements *)

Perimeter == Side \ {"CENTER"}

Glyphs == {"", " ", "■"}

\* Element::repr: representations[key] is std::map::operator[], which gives
\* the value stored under key and inserts a missing key with a
\* default-constructed string; the result is the value returned and the map
\* afterwards.
ElementRepr_blank(reprs, key) ==
    IF key \in DOMAIN reprs
    THEN [value |-> reprs[key], representations |-> reprs]
    ELSE [value |-> " ",
          representations |->
              [k \in DOMAIN reprs \cup {key} |->
                  IF k \in DOMAIN reprs THEN reprs[k] ELSE " "]]

ElementRepr(reprs, key) ==
    IF key \in DOMAIN reprs
    THEN [value |-> reprs[key], representations |-> reprs]
    ELSE [value |-> "",
          representations |->
              [k \in DOMAIN reprs \cup {key} |->
                  IF k \in DOMAIN reprs THEN reprs[k] ELSE ""]]

NULL_REPRESENTATIONS == [s \in Perimeter |-> ""]

WALL_REPRESENTATIONS_full == [s \in Side |-> "■"]

WALL_REPRESENTATIONS == [s \in Side |-> IF s = "CENTER" THEN " " ELSE "■"]

FLOOR_REPRESENTATIONS == [s \in Side |-> " "]

\* a mapping a caller hands to Element's constructor: it leaves SOUTH out
USER_REPRESENTATIONS == [s \in Side \ {"SOUTH"} |-> IF s = "NORTH" THEN "■" ELSE " "]

Elements == {"NULL_ELEMENT", "WALL_ELEMENT", "FLOOR_ELEMENT", "USER_ELEMENT"}

\* Element::Element(reprs) for each Element object of the program
Element(e) ==
    CASE e = "NULL_ELEMENT"  -> NULL_REPRESENTATIONS
      [] e = "WALL_ELEMENT"  -> WALL_REPRESENTATIONS
      [] e = "FLOOR_ELEMENT" -> FLOOR_REPRESENTATIONS
      [] e = "USER_ELEMENT"  -> USER_REPRESENTATIONS

Ctors == {"NullContainer", "WallContainer", "FloorContainer"}

\* the default `el` argument of the three ElementContainer subclasses
DefaultElement(ctor) ==
    CASE ctor = "NullContainer"  -> "NULL_ELEMENT"
      [] ctor = "WallContainer"  -> "WALL_ELEMENT"
      [] ctor = "FloorContainer" -> "FLOOR_ELEMENT"

(* ----------------------------------------------------------------- heap *)

\* addresses: 1..9 are taken by Block(), the rest by the caller's `new`
Ptr == 1 .. (2 * BLOCK_SIZE * BLOCK_SIZE)

Live == {p \in Ptr : heap[p] = "live"}

\* the container pointers the caller can name: its own, and getElement(x, y)
getElement(x, y) == grid[<<x, y>>]

Handles == locals \cup {getElement(i[1], i[2]) : i \in Index}

\* what `new` may return: any address that is not live.  Addresses nothing
\* refers to are interchangeable, so the lowest of them stands for all of
\* them; every released address the caller can still reach through the grid
\* is tried as well (the allocator may hand it out again).
NewAddresses ==
    LET free     == Ptr \ Live
        dangling == free \cap Handles
        fresh    == free \ Handles
    IN  dangling \cup {p \in fresh : \A q \in fresh : p <= q}

(* ---------------------------------------------------------- call record *)

NoCall == [op |-> "none", ptr |-> 0, side |-> "", el |-> "", idx |-> <<>>,
           ret |-> "", out |-> <<>>]

(* ----------------------------------------------------------------- Init *)

\* Block::Block(): grid[i][j] = new NullContainer(index_to_side(i, j))
BlockCell_wall(i, j) == [side |-> index_to_side(i, j), el |-> "WALL_ELEMENT"]

BlockCell(i, j) == [side |-> index_to_side(i, j), el |-> DefaultElement("NullContainer")]

CellPtr(i) == BLOCK_SIZE * i[1] + i[2] + 1

CellOf(p) == <<(p - 1) \div BLOCK_SIZE, (p - 1) % BLOCK_SIZE>>

Init ==
    /\ representations = [e \in Elements |-> Element(e)]
    /\ grid = [i \in Index |-> CellPtr(i)]
    /\ heap = [p \in Ptr |-> IF p <= BLOCK_SIZE * BLOCK_SIZE THEN "live" ELSE "unused"]
    /\ state = [p \in Ptr |->
                  IF p <= BLOCK_SIZE * BLOCK_SIZE
                  THEN BlockCell(CellOf(p)[1], CellOf(p)[2]).side
                  ELSE "NORTH_WEST"]
    /\ el_proxy = [p \in Ptr |->
                  IF p <= BLOCK_SIZE * BLOCK_SIZE
                  THEN BlockCell(CellOf(p)[1], CellOf(p)[2]).el
                  ELSE "NULL_ELEMENT"]
    /\ locals = {}
    /\ call = NoCall
    /\ crashed = FALSE
    /\ nCalls = 0

(* -------------------------------------------------------------- actions *)

\* a call through a dangling pointer may stop the program
Crash(op, c) ==
    /\ heap[c] # "live"
    /\ crashed' = TRUE
    /\ call' = [NoCall EXCEPT !.op = op, !.ptr = c]
    /\ UNCHANGED <<representations, heap, state, el_proxy, grid, locals>>

\* new NullContainer(side) / new WallContainer(side) / new FloorContainer(side):
\* ElementContainer(side, el) { setSide(side); setElement(el); }
Construct(ctor, side) == [state |-> side, el_proxy |-> DefaultElement(ctor)]

NewContainer(ctor, side, p) ==
    /\ heap[p] # "live"
    /\ heap' = [heap EXCEPT ![p] = "live"]
    /\ state' = [state EXCEPT ![p] = Construct(ctor, side).state]
    /\ el_proxy' = [el_proxy EXCEPT ![p] = Construct(ctor, side).el_proxy]
    /\ locals' = locals \cup {p}
    /\ call' = [NoCall EXCEPT !.op = "new", !.ptr = p, !.side = side,
                              !.el = DefaultElement(ctor)]
    /\ UNCHANGED <<representations, grid, crashed>>

\* ElementContainer::setSide; a write through a dangling pointer lands in the
\* released memory or stops the program
SetSide(c, side) ==
    \/ /\ state' = [state EXCEPT ![c] = side]
       /\ call' = [NoCall EXCEPT !.op = "setSide", !.ptr = c, !.side = side]
       /\ UNCHANGED <<representations, heap, el_proxy, grid, locals, crashed>>
    \/ Crash("setSide", c)

\* ElementContainer::setElement
SetElement(c, el) ==
    \/ /\ el_proxy' = [el_proxy EXCEPT ![c] = el]
       /\ call' = [NoCall EXCEPT !.op = "setElement", !.ptr = c, !.el = el]
       /\ UNCHANGED <<representations, heap, state, grid, locals, crashed>>
    \/ Crash("setElement", c)

\* ElementContainer::getSide; a released container reads as any Side
ReadSide(c) == IF heap[c] = "live" THEN {state[c]} ELSE Side

GetSide(c) ==
    \/ /\ \E s \in ReadSide(c) :
             call' = [NoCall EXCEPT !.op = "getSide", !.ptr = c, !.ret = s]
       /\ UNCHANGED <<representations, heap, state, el_proxy, grid, locals, crashed>>
    \/ Crash("getSide", c)

\* Element::repr called on an element directly
ElementReprCall(el, key) ==
    LET r == ElementRepr(representations[el], key) IN
    /\ representations' = [representations EXCEPT ![el] = r.representations]
    /\ call' = [NoCall EXCEPT !.op = "Element::repr", !.el = el, !.side = key,
                              !.ret = r.value]
    /\ UNCHANGED <<heap, state, el_proxy, grid, locals, crashed>>

\* ElementContainer::repr: el_proxy->repr(state)
ContainerRepr_north(reprs, el, side) == ElementRepr(reprs[el], "NORTH")

ContainerRepr(reprs, el, side) == ElementRepr(reprs[el], side)

Repr(c) ==
    \/ /\ heap[c] = "live"
       /\ LET r == ContainerRepr(representations, el_proxy[c], state[c]) IN
          /\ representations' = [representations EXCEPT ![el_proxy[c]] = r.representations]
          /\ call' = [NoCall EXCEPT !.op = "repr", !.ptr = c, !.ret = r.value]
       /\ UNCHANGED <<heap, state, el_proxy, grid, locals, crashed>>
    \/ /\ heap[c] # "live"
       /\ \E g \in Glyphs :
             call' = [NoCall EXCEPT !.op = "repr", !.ptr = c, !.ret = g]
       /\ UNCHANGED <<representations, heap, state, el_proxy, grid, locals, crashed>>
    \/ Crash("repr", c)

\* Block::setContainer
Install_swapped(g, el, idx) == [g EXCEPT ![<<idx[2], idx[1]>>] = el]

Install(g, el, idx) == [g EXCEPT ![idx] = el]

SetContainer(el) ==
    \/ \E el_side \in ReadSide(el) :
          LET mapped_index == side_to_index(el_side)
              curr_el      == grid[mapped_index]
          IN  \/ /\ heap' = [heap EXCEPT ![curr_el] = "freed"]     \* delete curr_el
                 /\ grid' = Install(grid, el, mapped_index)
                 /\ locals' = locals \ {el}
                 /\ call' = [NoCall EXCEPT !.op = "setContainer", !.ptr = el,
                                           !.side = el_side, !.idx = mapped_index]
                 /\ UNCHANGED <<representations, state, el_proxy, crashed>>
              \/ Crash("setContainer", curr_el)        \* curr_el released twice
    \/ Crash("setContainer", el)

\* Block::render: each row is every item's repr() followed by " ", then endl
Cells == [k \in 1 .. BLOCK_SIZE * BLOCK_SIZE |-> CellOf(k)]

RECURSIVE RenderItems(_, _, _, _, _, _, _)
RenderItems(k, reprs, g, h, st, el, junk) ==
    IF k > BLOCK_SIZE * BLOCK_SIZE
    THEN [representations |-> reprs, glyphs |-> <<>>]
    ELSE LET item == g[Cells[k]]
             r    == IF h[item] = "live"
                     THEN ContainerRepr(reprs, el[item], st[item])
                     ELSE [value |-> junk[Cells[k]], representations |-> reprs[el[item]]]
             rest == RenderItems(k + 1, [reprs EXCEPT ![el[item]] = r.representations],
                                 g, h, st, el, junk)
         IN  [representations |-> rest.representations,
              glyphs |-> <<r.value>> \o rest.glyphs]

RECURSIVE RowText_bare(_, _, _)
RowText_bare(glyphs, i, j) ==
    IF j >= BLOCK_SIZE THEN ""
    ELSE glyphs[BLOCK_SIZE * i + j + 1] \o RowText_bare(glyphs, i, j + 1)

RECURSIVE RowText(_, _, _)
RowText(glyphs, i, j) ==
    IF j >= BLOCK_SIZE THEN ""
    ELSE glyphs[BLOCK_SIZE * i + j + 1] \o " " \o RowText(glyphs, i, j + 1)

DanglingCells == {i \in Index : heap[grid[i]] # "live"}

Render ==
    \/ \E junk \in [DanglingCells -> Glyphs] :
          LET r == RenderItems(1, representations, grid, heap, state, el_proxy, junk) IN
          /\ representations' = r.representations
          /\ call' = [NoCall EXCEPT !.op = "render",
                                    !.out = [i \in 1 .. BLOCK_SIZE |-> RowText(r.glyphs, i - 1, 0)]]
          /\ UNCHANGED <<heap, state, el_proxy, grid, locals, crashed>>
    \/ \E i \in DanglingCells : Crash("render", grid[i])

(* ------------------------------------------------------- specifications *)

\* a caller of Block: it makes one container at a time, hands it to the
\* Block, reaches the installed ones through getElement, and makes at most
\* MaxCalls calls; a stopped program makes none
Counted ==
    /\ ~crashed
    /\ nCalls < MaxCalls
    /\ nCalls' = nCalls + 1

Next ==
    \/ \E ctor \in Ctors, side \in Side, p \in NewAddresses :
          locals = {} /\ Counted /\ NewContainer(ctor, side, p)
    \/ \E c \in Handles, side \in SetSideArgs : Counted /\ SetSide(c, side)
    \/ \E c \in Handles : Counted /\ Repr(c)
    \/ \E c \in Handles : Counted /\ SetContainer(c)
    \/ Counted /\ Render

Spec == Init /\ [][Next]_vars

\* a caller of Element and ElementContainer alone, as in flyweight.cpp: it
\* holds up to MaxHeld containers and never hands one to a Block
NextFlyweight ==
    \/ \E ctor \in Ctors, side \in Side, p \in NewAddresses :
          /\ Cardinality(locals) < MaxHeld
          /\ NewContainer(ctor, side, p)
          /\ UNCHANGED nCalls
    \/ \E c \in locals, side \in Side : SetSide(c, side) /\ UNCHANGED nCalls
    \/ \E c \in locals, el \in Elements : SetElement(c, el) /\ UNCHANGED nCalls
    \/ \E c \in locals : GetSide(c) /\ UNCHANGED nCalls
    \/ \E c \in locals : Repr(c) /\ UNCHANGED nCalls
    \/ \E el \in Elements, key \in ReprArgs :
          ElementReprCall(el, key) /\ UNCHANGED nCalls

SpecFlyweight == Init /\ [][NextFlyweight]_vars

\* main() of block.cpp with its nine setContainer(new ...) statements taken in
\* any order: a Wall container for each perimeter side, a Floor container for
\* CENTER, then render()
SideOrdinal(s) ==
    CASE s = "NORTH_WEST" -> 0 [] s = "NORTH" -> 1 [] s = "NORTH_EAST" -> 2
      [] s = "WEST" -> 3 [] s = "CENTER" -> 4 [] s = "EAST" -> 5
      [] s = "SOUTH_WEST" -> 6 [] s = "SOUTH" -> 7 [] s = "SOUTH_EAST" -> 8

\* the address `new` returns in main(): no pointer is dangling there, so one
\* address per statement stands for whatever the allocator returns
ReservedAddress(side) == BLOCK_SIZE * BLOCK_SIZE + 1 + SideOrdinal(side)

Pending(side) == el_proxy[grid[side_to_index(side)]] = "NULL_ELEMENT"

MainNew(side) ==
    /\ ~crashed
    /\ Pending(side)
    /\ locals = {}
    /\ NewContainer(IF side = "CENTER" THEN "FloorContainer" ELSE "WallContainer",
                    side, ReservedAddress(side))
    /\ UNCHANGED nCalls

MainSetContainer ==
    /\ ~crashed
    /\ \E c \in locals : SetContainer(c)
    /\ UNCHANGED nCalls

MainRender ==
    /\ ~crashed
    /\ locals = {}
    /\ \A side \in Side : ~Pending(side)
    /\ Render
    /\ UNCHANGED nCalls

NextMain ==
    \/ \E side \in Side : MainNew(side)
    \/ MainSetContainer
    \/ MainRender

SpecMain == Init /\ [][NextMain]_vars

(* --------------------------------------------------------------- claims *)

\* the Block as Block() leaves it, with every container still allocated
Constructed ==
    /\ grid = [i \in Index |-> CellPtr(i)]
    /\ \A i \in Index :
          /\ heap[grid[i]] = "live"
          /\ state[grid[i]] = BlockCell(i[1], i[2]).side
          /\ el_proxy[grid[i]] = BlockCell(i[1], i[2]).el

\* C1: a setContainer(c) call that returns, made with an allocated container
\* c, puts c in the cell side_to_index gives for c's stored side and leaves
\* the other eight cells pointing where they pointed.
C1_SetContainerFrame ==
    [][(call'.op = "setContainer" /\ ~crashed' /\ heap[call'.ptr] = "live")
          => /\ grid'[side_to_index(state[call'.ptr])] = call'.ptr
             /\ \A i \in Index \ {side_to_index(state[call'.ptr])} : grid'[i] = grid[i]]_vars

\* a new Wall container with side NORTH was installed: only cell (0,1) changed
C1_Witness ==
    /\ call.op = "setContainer" /\ call.side = "NORTH" /\ ~crashed
    /\ grid[<<0, 1>>] = call.ptr /\ call.ptr # CellPtr(<<0, 1>>)
    /\ heap[call.ptr] = "live" /\ el_proxy[call.ptr] = "WALL_ELEMENT"
    /\ \A i \in Index \ {<<0, 1>>} : grid[i] = CellPtr(i)

\* C2: the program is running and each of the nine cells holds an allocated
\* container, no container being in two cells.
C2_NineOwnedContainers ==
    /\ ~crashed
    /\ \A i \in Index : heap[grid[i]] = "live"
    /\ \A i, j \in Index : grid[i] = grid[j] => i = j

\* the statements of main() have all run: Wall containers on the perimeter, a
\* Floor container at CENTER
MainInstalled ==
    /\ locals = {}
    /\ \A i \in Index :
          /\ heap[grid[i]] = "live"
          /\ state[grid[i]] = index_to_side(i[1], i[2])
          /\ el_proxy[grid[i]] =
                IF i = <<1, 1>> THEN "FLOOR_ELEMENT" ELSE "WALL_ELEMENT"

\* C3 as stated: after the nine installs render() prints the rows "■ ■ ■",
\* "■   ■", "■ ■ ■", the cells of a row separated by one space.
C3_RowsSeparated ==
    (call.op = "render" /\ MainInstalled)
        => call.out = <<"■ ■ ■", "■   ■", "■ ■ ■">>

\* C3 amended: after the nine installs, in any order, render() prints three
\* rows in which every cell's glyph is followed by one space, the last one
\* too: "■ ■ ■ ", "■   ■ ", "■ ■ ■ ".
C3_RowsTerminated ==
    (call.op = "render" /\ MainInstalled)
        => (~crashed /\ call.out = <<"■ ■ ■ ", "■   ■ ", "■ ■ ■ ">>)

C3_Witness ==
    /\ call.op = "render" /\ MainInstalled /\ ~crashed
    /\ Len(call.out) = BLOCK_SIZE
    /\ \A i \in Index : grid[i] = ReservedAddress(index_to_side(i[1], i[2]))

\* C4: while the Block is as constructed, every cell renders as the null
\* glyph "", CENTER included: repr() of the container getElement returns gives
\* "", and render() prints rows of three null glyphs.
C4_FreshBlockBlank ==
    Constructed =>
        /\ \A i \in Index :
              ContainerRepr(representations, el_proxy[getElement(i[1], i[2])],
                            state[getElement(i[1], i[2])]).value = ""
        /\ (call.op = "repr" /\ call.ptr \in {getElement(i[1], i[2]) : i \in Index})
              => call.ret = ""
        /\ call.op = "render" => call.out = [i \in 1 .. BLOCK_SIZE |-> "   "]

\* the CENTER cell of a Block nobody has changed was rendered
C4_Witness ==
    /\ Constructed /\ call.op = "repr" /\ call.ptr = getElement(1, 1)
    /\ call.ret = "" /\ ~crashed

\* C5: index_to_side and side_to_index are inverse bijections between the nine
\* sides and the nine coordinates; the index setContainer computed maps back
\* to the side it was computed from.
C5_SideIndexBijection ==
    /\ \A i \in Index : side_to_index(index_to_side(i[1], i[2])) = i
    /\ \A d \in Side : /\ side_to_index(d) \in Index
                       /\ index_to_side(side_to_index(d)[1], side_to_index(d)[2]) = d
    /\ \A d, e \in Side : side_to_index(d) = side_to_index(e) => d = e
    /\ call.op = "setContainer" /\ ~crashed
          => index_to_side(call.idx[1], call.idx[2]) = call.side

C5_Witness ==
    /\ call.op = "setContainer" /\ ~crashed
    /\ call.side = "SOUTH_WEST" /\ call.idx = <<2, 0>>
    /\ index_to_side(2, 0) = "SOUTH_WEST"

\* C6: every Element still holds the mapping it was constructed with.
C6_ElementsImmutable ==
    \A e \in Elements : representations[e] = Element(e)

\* C7: a lookup of a side that is not among the element's keys, made on the
\* element or through an allocated container, returns "" and the program goes
\* on.
C7_AbsentKeyEmpty ==
    [][/\ (call'.op = "Element::repr" /\ call'.side \notin DOMAIN representations[call'.el])
            => (call'.ret = "" /\ ~crashed')
       /\ (/\ call'.op = "repr" /\ heap[call'.ptr] = "live"
           /\ state[call'.ptr] \notin DOMAIN representations[el_proxy[call'.ptr]])
            => (call'.ret = "" /\ ~crashed')]_vars

\* CENTER was looked up on the NULL element, whose table has no CENTER
C7_Witness ==
    /\ call.op = "Element::repr" /\ call.el = "NULL_ELEMENT" /\ call.side = "CENTER"
    /\ "CENTER" \notin DOMAIN Element("NULL_ELEMENT")
    /\ call.ret = "" /\ ~crashed

C9_PresetTables ==
    /\ DOMAIN representations["WALL_ELEMENT"] = Side
    /\ DOMAIN representations["FLOOR_ELEMENT"] = Side
    /\ \A d \in Side :
          /\ ElementRepr(representations["WALL_ELEMENT"], d).value =
                (IF d = "CENTER" THEN " " ELSE "■")
          /\ ElementRepr(representations["FLOOR_ELEMENT"], d).value = " "
    /\ (call.op = "Element::repr" /\ call.el = "WALL_ELEMENT")
          => call.ret = (IF call.side = "CENTER" THEN " " ELSE "■")
    /\ (call.op = "Element::repr" /\ call.el = "FLOOR_ELEMENT") => call.ret = " "

C9_Witness ==
    /\ call.op = "Element::repr" /\ call.el = "WALL_ELEMENT" /\ call.side = "CENTER"
    /\ call.ret = " " /\ ~crashed

\* C10: the container in each cell stores the side of that cell.
C10_CellSideAgreement ==
    \A i \in Index : state[grid[i]] = index_to_side(i[1], i[2])

====
